---------------------------- MODULE Spec2Model ----------------------------
(***************************************************************************)
(* Lending-rate tracker (kinri.py): the rates table, the one-time seed,    *)
(* the "ingest latest" button, and the load / resample / render path of    *)
(* main().                                                                  *)
(*                                                                          *)
(* Units.  A stored rate is round(rate, 3), kept here as an integer number  *)
(* of thousandths of a percent (1.475 -> 1475).  The seed arithmetic is     *)
(* done in units of 1e-5 percent (1.475 -> 147500) so that the trend        *)
(* i * 0.00005 is the integer 5 * i.                                        *)
(* Dates.  datetime values are proleptic Gregorian day ordinals, the text   *)
(* 'YYYY-MM-DD' written by strftime is the triple <<y, m, d>>.              *)
(* Banks.  "BOJ" = 日銀(基準), "MUFG" = 三菱UFJ(変動),                      *)
(* "Yokohama" = 横浜銀行(変動), "Johoku" = 城北信用金庫(変動).              *)
(***************************************************************************)
EXTENDS Integers, Sequences, FiniteSets, TLC

VARIABLES
    tableExists,  \* the rates table has been created in lending_rates.db
    store,        \* the rows of the rates table, in rowid order
    now,          \* the day ordinal datetime.now() falls on
    pc,           \* position of the single session inside main()
    time_unit,    \* the st.radio choice, "unset" until main() reads it
    df,           \* the in-memory table of main()
    view,         \* what the page shows at the end of the rerun
    metrics,      \* cols[0..3] after the summary loop, in order
    runs,         \* reruns of main() started so far
    ingest_log,   \* the `today` value of every button ingestion, in order
    cpc,          \* concurrent sessions: position of each session
    ccount,       \* concurrent sessions: df_check['count'][0] as read
    cstart,       \* concurrent sessions: day the seed window ends on
    ctoday        \* concurrent sessions: `today` of the session's ingestion

vars == <<tableExists, store, now, pc, time_unit, df, view, metrics,
          runs, ingest_log, cpc, ccount, cstart, ctoday>>

mainVars == <<pc, time_unit, df, view, metrics, runs, ingest_log>>
concVars == <<cpc, ccount, cstart, ctoday>>

---------------------------------------------------------------------------
(* Bounds of the model *)

\* number of days the seed loop generates (range(1826) in the source, scaled)
SeedDays == 2
\* the clock advances at most this many days
MaxTicks == 8
\* reruns of main() explored
MaxRuns == 2
\* days the clock may advance while two sessions run side by side
MaxConcTicks == 1

---------------------------------------------------------------------------
(* Program constants *)

\* max(0.1, ...) in units of 1e-5
RateFloor == 10000
\* trend = i * 0.00005 in units of 1e-5
TrendPerDay == 5
\* st.columns(4)
NumCols == 4

\* the keys of the banks dict, in insertion order
BankList == <<"BOJ", "MUFG", "Yokohama", "Johoku">>

\* the banks dict: base rate in units of 1e-5
banks == [b \in {"BOJ", "MUFG", "Yokohama", "Johoku"} |->
            CASE b = "BOJ" -> 147500
              [] b = "MUFG" -> 34500
              [] b = "Yokohama" -> 42500
              [] b = "Johoku" -> 62500]

\* values np.random.normal(0, 0.002) is drawn from here (units of 1e-5):
\* no noise, and a draw far enough below zero to reach the 0.1 floor
Noise == {0, -200000}

TimeUnits == {"day", "week", "month", "year"}

---------------------------------------------------------------------------
(* datetime: ordinals, strftime('%Y-%m-%d'), pd.to_datetime *)

IsLeap(y) == (y % 4 = 0) /\ ((y % 100 # 0) \/ (y % 400 = 0))

DaysInMonth(y, m) ==
    IF m = 2 THEN (IF IsLeap(y) THEN 29 ELSE 28)
    ELSE IF m \in {4, 6, 9, 11} THEN 30 ELSE 31

DaysBeforeYear(y) ==
    LET p == y - 1 IN p * 365 + (p \div 4) - (p \div 100) + (p \div 400)

\* days of the year before the first of each month, common and leap years
DaysBeforeMonthTable ==
    [leap \in BOOLEAN |->
        <<0, 31, IF leap THEN 60 ELSE 59, IF leap THEN 91 ELSE 90,
          IF leap THEN 121 ELSE 120, IF leap THEN 152 ELSE 151,
          IF leap THEN 182 ELSE 181, IF leap THEN 213 ELSE 212,
          IF leap THEN 244 ELSE 243, IF leap THEN 274 ELSE 273,
          IF leap THEN 305 ELSE 304, IF leap THEN 335 ELSE 334>>]

DaysBeforeMonth(y, m) == DaysBeforeMonthTable[IsLeap(y)][m]

\* pd.to_datetime('YYYY-MM-DD'): the day the text names
ToDatetime(t) == DaysBeforeYear(t[1]) + DaysBeforeMonth(t[1], t[2]) + t[3]

YearOf(n) ==
    CHOOSE y \in (n \div 366)..((n \div 365) + 1) :
        DaysBeforeYear(y) < n /\ n <= DaysBeforeYear(y + 1)

\* the month of the k-th day of year y
MonthOfYearDay(y, k) ==
    CHOOSE m \in 1..12 :
        DaysBeforeMonth(y, m) < k /\ k <= DaysBeforeMonth(y, m) + DaysInMonth(y, m)

\* strftime('%Y-%m-%d')
Strftime(n) ==
    LET y == YearOf(n)
        k == n - DaysBeforeYear(y)
        m == MonthOfYearDay(y, k)
    IN  <<y, m, k - DaysBeforeMonth(y, m)>>

\* the day the clock starts on, a Sunday
Day0 == ToDatetime(<<2023, 12, 31>>)

\* Monday = 0 ... Sunday = 6
Weekday(n) == (n + 6) % 7

\* the order of 'YYYY-MM-DD' texts under ORDER BY date ASC
TextKey(row) == row.date[1] * 10000 + row.date[2] * 100 + row.date[3]

---------------------------------------------------------------------------
(* The rates table: UNIQUE(date, bank_name) and INSERT OR IGNORE *)

Row(d, b, r) == [date |-> d, bank_name |-> b, rate |-> r]

SameKey(r1, r2) == r1.date = r2.date /\ r1.bank_name = r2.bank_name

\* a row of tbl conflicts with rec under UNIQUE(date, bank_name)
Conflicts(tbl, rec) == \E i \in 1..Len(tbl) : SameKey(tbl[i], rec)

\* the insert into a table created without UNIQUE(date, bank_name)
InsertPlain(tbl, rec) == Append(tbl, rec)

\* INSERT OR REPLACE for one record: the conflicting row is deleted, the new
\* one appended
InsertLastWins(tbl, rec) ==
    Append(SelectSeq(tbl, LAMBDA r : ~SameKey(r, rec)), rec)

\* INSERT OR IGNORE INTO rates VALUES (?,?,?) for one record
InsertOrIgnore(tbl, rec) ==
    IF Conflicts(tbl, rec) THEN tbl ELSE Append(tbl, rec)

\* INSERT OR REPLACE: the conflicting row is deleted, the new one appended
RECURSIVE ExecuteManyReplace(_, _)
ExecuteManyReplace(tbl, recs) ==
    IF recs = <<>> THEN tbl
    ELSE ExecuteManyReplace(
             Append(SelectSeq(tbl, LAMBDA r : ~SameKey(r, Head(recs))), Head(recs)),
             Tail(recs))

\* c.executemany("INSERT OR IGNORE ...", recs): the records in order
RECURSIVE ExecuteMany(_, _)
ExecuteMany(tbl, recs) ==
    IF recs = <<>> THEN tbl
    ELSE ExecuteMany(InsertOrIgnore(tbl, Head(recs)), Tail(recs))

---------------------------------------------------------------------------
(* seed_initial_data: the generated records *)

Max(a, b) == IF a >= b THEN a ELSE b

\* round(rate, 3): units of 1e-5 to thousandths, to the nearest
Round3(x) == (x + 50) \div 100

\* rate = max(0.1, base_rate + trend + noise), rounded
SeedRate(i, bank, noise) ==
    Round3(Max(RateFloor, banks[bank] + TrendPerDay * i + noise))

\* start_date = datetime.now() - timedelta(days=1825), 1825 = range - 1
StartDate(today) == today - (SeedDays - 1)

\* initial_records: for i in range(SeedDays), for bank in banks; noise[i][bank]
\* is the draw of np.random.normal for that record
InitialRecords(today, noise) ==
    LET current_date == [i \in 0..(SeedDays - 1) |-> Strftime(StartDate(today) + i)]
    IN  [k \in 1..(SeedDays * Len(BankList)) |->
            LET i == (k - 1) \div Len(BankList)
                bank == BankList[((k - 1) % Len(BankList)) + 1]
            IN  Row(current_date[i], bank, SeedRate(i, bank, noise[i][bank]))]

\* the draws explored: every assignment of a Noise value to each day, the
\* records of one day sharing the draw
NoiseDraws ==
    {[i \in 0..(SeedDays - 1) |-> [b \in DOMAIN banks |-> f[i]]] :
        f \in [0..(SeedDays - 1) -> Noise]}

---------------------------------------------------------------------------
(* fetch_latest_lending_rates *)

\* a fetch whose fourth entry carries a name the seed does not use
FetchWithOtherName(today) ==
    LET d == Strftime(today)
    IN
    << Row(d, "BOJ", 1475),
       Row(d, "MUFG", 345),
       Row(d, "Yokohama", 425),
       Row(d, "Johoku Shinkin", 625) >>

fetch_latest_lending_rates(today) ==
    LET d == Strftime(today)
    IN
    << Row(d, "BOJ", 1475),
       Row(d, "MUFG", 345),
       Row(d, "Yokohama", 425),
       Row(d, "Johoku", 625) >>

---------------------------------------------------------------------------
(* The in-memory table: load, resample, latest-value summary *)

\* a float of the table; den = 0 is NaN
NaN == [num |-> 0, den |-> 0]

RECURSIVE GCD(_, _)
GCD(a, b) == IF b = 0 THEN a ELSE GCD(b, a % b)

Rat(n, d) == LET g == GCD(n, d) IN [num |-> n \div g, den |-> d \div g]

\* x goes after the last element whose key is not greater
RECURSIVE InsertByKey(_, _)
InsertByKey(s, x) ==
    IF s = <<>> \/ s[Len(s)].key <= x.key THEN Append(s, x)
    ELSE Append(InsertByKey(SubSeq(s, 1, Len(s) - 1), x), s[Len(s)])

\* insertion sort: s[k..] inserted one by one into the sorted acc
RECURSIVE SortFrom(_, _, _)
SortFrom(s, k, acc) ==
    IF k > Len(s) THEN acc ELSE SortFrom(s, k + 1, InsertByKey(acc, s[k]))

SortKeyed(s) == SortFrom(s, 1, <<>>)

\* the sequence f as a tuple of its values, so that TLC computes each once
Tuple(f) == f \o <<>>

\* ORDER BY date ASC: a stable sort of the stored rows by the date text
SortByText(tbl) ==
    LET keyed == SortKeyed(Tuple([k \in 1..Len(tbl) |-> [key |-> TextKey(tbl[k]), row |-> tbl[k]]]))
    IN  Tuple([k \in 1..Len(tbl) |-> keyed[k].row])

\* sort_values('date'): a stable sort of the in-memory rows by date
SortByDate(d) ==
    LET keyed == SortKeyed(Tuple([k \in 1..Len(d) |-> [key |-> d[k].date, row |-> d[k]]]))
    IN  Tuple([k \in 1..Len(d) |-> keyed[k].row])

\* SELECT * FROM rates ORDER BY date ASC, then df['date'] = pd.to_datetime(...)
LoadTable(tbl) ==
    LET sorted == SortByText(tbl)
    IN  Tuple([k \in 1..Len(sorted) |->
                [bank_name |-> sorted[k].bank_name,
                 date      |-> ToDatetime(sorted[k].date),
                 rate      |-> Rat(sorted[k].rate, 1)]])

MonthEnd(n) ==
    LET t == Strftime(n)
    IN  n - t[3] + DaysInMonth(t[1], t[2])

\* the right-closed, right-labelled bin of 'W' (weeks ending Sunday), 'M', 'Y'
BinLabel(unit, n) ==
    CASE unit = "week"  -> n + (6 - Weekday(n))
      [] unit = "month" -> MonthEnd(n)
      [] unit = "year"  -> DaysBeforeYear(YearOf(n) + 1)

\* every bin from the first observation's to the last one's
RECURSIVE BinRange(_, _, _)
BinRange(unit, lo, hi) ==
    IF lo > hi THEN <<>>
    ELSE <<lo>> \o BinRange(unit, BinLabel(unit, lo + 1), hi)

RECURSIVE SumNum(_)
SumNum(g) == IF g = <<>> THEN 0 ELSE Head(g).rate.num + SumNum(Tail(g))

\* .mean() of a bin of stored rates (each num/1): NaN when the bin is empty
Mean(g) == IF g = <<>> THEN NaN ELSE Rat(SumNum(g), Len(g))

\* group keys sort by code point: 三菱 < 城北 < 日銀 < 横浜, other names last
NameRank(b) ==
    CASE b = "MUFG" -> 1
      [] b = "Johoku" -> 2
      [] b = "BOJ" -> 3
      [] b = "Yokohama" -> 4
      [] OTHER -> 5

RECURSIVE SortedNames(_)
SortedNames(S) ==
    IF S = {} THEN <<>>
    ELSE LET b == CHOOSE x \in S : \A y \in S : NameRank(x) <= NameRank(y)
         IN  <<b>> \o SortedNames(S \ {b})

GroupKeys(d) == SortedNames({d[k].bank_name : k \in 1..Len(d)})

MinDate(g) == CHOOSE n \in {g[k].date : k \in 1..Len(g)} :
                  \A k \in 1..Len(g) : n <= g[k].date
MaxDate(g) == CHOOSE n \in {g[k].date : k \in 1..Len(g)} :
                  \A k \in 1..Len(g) : n >= g[k].date

\* one group's .resample(unit, on='date').mean()
ResampleGroup(g, b, unit) ==
    LET labels == BinRange(unit, BinLabel(unit, MinDate(g)), BinLabel(unit, MaxDate(g)))
        binned == Tuple([k \in 1..Len(g) |-> [bin |-> BinLabel(unit, g[k].date), rate |-> g[k].rate]])
    IN  [k \in 1..Len(labels) |->
            [bank_name |-> b,
             date      |-> labels[k],
             rate      |-> Mean(SelectSeq(binned, LAMBDA r : r.bin = labels[k]))]]

RECURSIVE ConcatGroups(_, _, _)
ConcatGroups(d, keys, unit) ==
    IF keys = <<>> THEN <<>>
    ELSE ResampleGroup(SelectSeq(d, LAMBDA r : r.bank_name = Head(keys)), Head(keys), unit)
         \o ConcatGroups(d, Tail(keys), unit)

\* df.groupby('bank_name').resample(unit, on='date').mean().reset_index()
ResampleTable(d, unit) == ConcatGroups(d, GroupKeys(d), unit)

RECURSIVE TailOfGroups(_)
TailOfGroups(s) ==
    IF s = <<>> THEN <<>>
    ELSE IF \E j \in 2..Len(s) : s[j].bank_name = Head(s).bank_name
         THEN TailOfGroups(Tail(s))
         ELSE <<Head(s)>> \o TailOfGroups(Tail(s))

\* df.sort_values('date').groupby('bank_name').tail(1)
Latest(d) == TailOfGroups(SortByDate(d))

---------------------------------------------------------------------------
(* One session: main() rerun after rerun *)

Sessions == {1, 2}

ConcIdle ==
    /\ cpc = [s \in Sessions |-> "off"]
    /\ ccount = [s \in Sessions |-> 0]
    /\ cstart = [s \in Sessions |-> 0]
    /\ ctoday = [s \in Sessions |-> 0]

\* the database file is missing, or holds the empty rates table
Init ==
    /\ tableExists \in BOOLEAN
    /\ store = <<>>
    /\ now = Day0
    /\ pc = "idle"
    /\ time_unit = "unset"
    /\ df = <<>>
    /\ view = "none"
    /\ metrics = <<>>
    /\ runs = 0
    /\ ingest_log = <<>>
    /\ ConcIdle

\* the calendar day changes.  datetime.now() is read by the seed and by the
\* button ingestion only, so a change of day is taken where the next read
\* observes it: once a rerun has started, and between those two reads
Tick ==
    /\ pc \in {"init_db", "sidebar"}
    /\ now < Day0 + MaxTicks
    /\ now' = now + 1
    /\ UNCHANGED <<tableExists, store, mainVars, concVars>>

\* a user interaction starts a rerun of the script
Rerun ==
    /\ pc = "idle"
    /\ runs < MaxRuns
    /\ runs' = runs + 1
    /\ pc' = "init_db"
    /\ df' = <<>>
    /\ view' = "none"
    /\ metrics' = <<>>
    /\ time_unit' = "unset"
    /\ UNCHANGED <<tableExists, store, now, ingest_log, concVars>>

\* sqlite3 raises and nothing catches it: the exception leaves main() and
\* the rerun ends with nothing more rendered
Raise ==
    /\ pc' = "idle"
    /\ view' = "OperationalError"

init_db ==
    /\ pc = "init_db"
    /\ tableExists' = TRUE
    /\ pc' = "seed"
    /\ UNCHANGED <<store, now, time_unit, df, view, metrics, runs, ingest_log, concVars>>

\* a seed that skips the count check
SeedStoreUnchecked(tbl, n, today, noise) ==
    ExecuteMany(tbl, InitialRecords(today, noise))

\* the table after seed_initial_data has read count(*) = n on day today
SeedStore(tbl, n, today, noise) ==
    IF n = 0 THEN ExecuteMany(tbl, InitialRecords(today, noise)) ELSE tbl

seed_initial_data ==
    /\ pc = "seed"
    /\ \E noise \in NoiseDraws : store' = SeedStore(store, Len(store), now, noise)
    /\ pc' = "sidebar"
    /\ UNCHANGED <<tableExists, now, time_unit, df, view, metrics, runs, ingest_log, concVars>>

\* pd.read_sql_query("SELECT count(*) ...") raises (database locked, I/O error)
SeedReadFails ==
    /\ pc = "seed"
    /\ Raise
    /\ UNCHANGED <<tableExists, store, now, time_unit, df, metrics, runs, ingest_log, concVars>>

\* the button was clicked: fetch and bulk insert
IngestLatest ==
    /\ pc = "sidebar"
    /\ store' = ExecuteMany(store, fetch_latest_lending_rates(now))
    /\ ingest_log' = Append(ingest_log, Strftime(now))
    /\ pc' = "load"
    /\ UNCHANGED <<tableExists, now, time_unit, df, view, metrics, runs, concVars>>

\* the button was not clicked
SidebarNoClick ==
    /\ pc = "sidebar"
    /\ pc' = "load"
    /\ UNCHANGED <<tableExists, store, now, time_unit, df, view, metrics, runs, ingest_log, concVars>>

\* pd.read_sql_query("SELECT * ...") raises
LoadReadFails ==
    /\ pc = "load"
    /\ Raise
    /\ UNCHANGED <<tableExists, store, now, time_unit, df, metrics, runs, ingest_log, concVars>>

\* the table main() charts: resampled unless the unit is the day
Resampled(loaded, unit) ==
    IF unit = "day" THEN loaded ELSE ResampleTable(loaded, unit)

\* the rest of main(): the radio is read, the table is loaded and resampled,
\* the chart is drawn and the summary loop runs cols[i].metric(...) for each
\* latest row
View ==
    /\ pc = "load"
    /\ pc' = "idle"
    /\ LET loaded == LoadTable(store)
       IN  \E u \in TimeUnits :
             /\ time_unit' = u
             /\ df' = Resampled(loaded, u)
    /\ LET latest == Latest(df')
       IN  IF df' = <<>>
           THEN view' = "nodata" /\ metrics' = <<>>
           ELSE IF Len(latest) > NumCols
                THEN view' = "IndexError" /\ metrics' = SubSeq(latest, 1, NumCols)
                ELSE view' = "chart" /\ metrics' = latest
    /\ UNCHANGED <<tableExists, store, now, runs, ingest_log, concVars>>

Next ==
    \/ Tick
    \/ Rerun
    \/ init_db
    \/ seed_initial_data
    \/ SeedReadFails
    \/ IngestLatest
    \/ SidebarNoClick
    \/ LoadReadFails
    \/ View

Spec == Init /\ [][Next]_vars

---------------------------------------------------------------------------
(* Properties of the single session *)

RowsWithKey(tbl, rec) == {i \in 1..Len(tbl) : SameKey(tbl[i], rec)}

BankNames(tbl) == {tbl[i].bank_name : i \in 1..Len(tbl)}

\* C1: in every reachable state the rates table holds at most one row for
\* each (date, bank_name) pair
C1_UniqueKeys ==
    \A i, j \in 1..Len(store) : SameKey(store[i], store[j]) => i = j

\* the seed and two ingestions have run, one ingestion on a new day and one
\* on keys the table already held
C1_Witness ==
    /\ Len(ingest_log) = 2
    /\ Len(store) = (SeedDays + 1) * Len(BankList)

\* C2: an ingestion leaves exactly one row for every ingested key, a key the
\* table already held keeps the row written first, and an ingestion whose
\* keys are all present (a second click on the same date) changes nothing
C2_IngestIdempotent ==
    [][ingest_log' # ingest_log =>
         LET recs == fetch_latest_lending_rates(now)
         IN  /\ \A k \in 1..Len(recs) :
                  /\ Cardinality(RowsWithKey(store', recs[k])) = 1
                  /\ \A i \in RowsWithKey(store, recs[k]) :
                       \E j \in RowsWithKey(store', recs[k]) : store'[j] = store[i]
             /\ (\A k \in 1..Len(recs) : Conflicts(store, recs[k])) => store' = store
      ]_vars

\* the button was clicked twice on one date, and the rows of that date were
\* written first by the seed with a rate the fetch does not carry
C2_Witness ==
    /\ Len(ingest_log) = 2
    /\ ingest_log[1] = ingest_log[2]
    /\ \E i \in 1..Len(store) :
         /\ store[i].date = ingest_log[1]
         /\ store[i].bank_name = "BOJ"
         /\ store[i].rate # 1475

\* C3: every step keeps every stored row: a row present before the step is
\* present after it, and no key changes its rate
C3_AppendOnly ==
    [][/\ \A i \in 1..Len(store) : \E j \in 1..Len(store') : store'[j] = store[i]
       /\ \A i \in 1..Len(store) : \A j \in 1..Len(store') :
            SameKey(store[i], store'[j]) => store'[j].rate = store[i].rate
      ]_vars

\* a resampled table was rendered from a table that the seed and an
\* ingestion on a later day wrote, after a click on keys already present
C3_Witness ==
    /\ view = "chart"
    /\ time_unit \in {"week", "month", "year"}
    /\ Len(ingest_log) = 2
    /\ ingest_log[1] # ingest_log[2]
    /\ Len(store) = (SeedDays + 1) * Len(BankList)

\* C9: seed_initial_data on a table with rows leaves the table unchanged; on
\* an empty table it leaves exactly one row per (bank, day) for the four banks
\* over the SeedDays consecutive days ending on the current date, all >= 0.1
C9_SeedOnce ==
    [][(pc = "seed" /\ pc' = "sidebar") =>
         /\ Len(store) > 0 => store' = store
         /\ Len(store) = 0 =>
              /\ Len(store') = SeedDays * Len(BankList)
              /\ \A b \in DOMAIN banks : \A i \in 0..(SeedDays - 1) :
                   Cardinality(RowsWithKey(store', Row(Strftime(now - i), b, 0))) = 1
              /\ \A k \in 1..Len(store') : store'[k].rate >= 100
      ]_vars

\* the second rerun's seed has run on a table that the first rerun seeded
\* (one draw on the 0.1 floor) and extended by an ingestion on a later day
C9_Witness ==
    /\ pc = "sidebar"
    /\ runs = 2
    /\ Len(ingest_log) = 1
    /\ Len(store) = (SeedDays + 1) * Len(BankList)
    /\ \E k \in 1..Len(store) : store[k].rate = 100

\* C10: the table never holds more than four bank names, the summary never
\* indexes past the four columns, and a rendered summary shows one metric
\* per bank of the table, taken from the bank's row with the greatest date
C10_FourBanks ==
    /\ Cardinality(BankNames(store)) <= NumCols
    /\ view # "IndexError"
    /\ view = "chart" =>
         /\ Len(metrics) = Cardinality(BankNames(store))
         /\ \A b \in BankNames(store) :
              Cardinality({k \in 1..Len(metrics) : metrics[k].bank_name = b}) = 1
         /\ \A k \in 1..Len(metrics) :
              /\ \E j \in 1..Len(df) : df[j] = metrics[k]
              /\ \A j \in 1..Len(df) :
                   df[j].bank_name = metrics[k].bank_name => df[j].date <= metrics[k].date

\* the summary of a seeded and ingested table shows four metrics
C10_Witness ==
    /\ view = "chart"
    /\ Len(metrics) = NumCols
    /\ Len(ingest_log) >= 1
    /\ Len(store) > SeedDays * Len(BankList)

\* discount amounts, in thousandths of a percent
Discounts == {0, 500, 1500}

\* a rate less a discount, floored at zero
Derived(rate, discount) ==
    Rat(Max(0, rate.num - discount * rate.den), rate.den)

\* C4: for a base bank and a discount, the rendered table holds, for every
\* observation of the base bank, a derived personal-rate observation on the
\* same date whose rate is max(0, rate - discount)
C4_PersonalRateEmitted ==
    view = "chart" =>
        \E base \in DOMAIN banks : \E discount \in Discounts :
            \A k \in 1..Len(df) :
                (df[k].bank_name = base /\ df[k].rate # NaN) =>
                    \E j \in 1..Len(df) :
                        /\ df[j].bank_name \notin DOMAIN banks
                        /\ df[j].date = df[k].date
                        /\ df[j].rate = Derived(df[k].rate, discount)

\* C5: a table resampled by week, month or year holds no row whose rate is
\* NaN: a bucket without observations produces no row
C5_NoEmptyBucketRow ==
    (view = "chart" /\ time_unit \in {"week", "month", "year"}) =>
        \A k \in 1..Len(df) : df[k].rate # NaN

\* C6: a failure while reading the table ends the rerun in the 'no data'
\* state; no exception leaves main()
C6_ReadFailureCaught == view # "OperationalError"

---------------------------------------------------------------------------
(* Two sessions on one database file.  Each statement that reaches sqlite   *)
(* is one step: the count query, the bulk insert with its commit, the       *)
(* button's bulk insert with its commit.                                    *)

MainIdle ==
    /\ pc = "idle"
    /\ time_unit = "unset"
    /\ df = <<>>
    /\ view = "none"
    /\ metrics = <<>>
    /\ runs = 0
    /\ ingest_log = <<>>

InitConc ==
    /\ tableExists \in BOOLEAN
    /\ store = <<>>
    /\ now = Day0
    /\ MainIdle
    /\ cpc = [s \in Sessions |-> "init_db"]
    /\ ccount = [s \in Sessions |-> 0]
    /\ cstart = [s \in Sessions |-> 0]
    /\ ctoday = [s \in Sessions |-> 0]

CTick ==
    /\ now < Day0 + MaxConcTicks
    /\ now' = now + 1
    /\ UNCHANGED <<tableExists, store, mainVars, concVars>>

CInitDb(s) ==
    /\ cpc[s] = "init_db"
    /\ tableExists' = TRUE
    /\ cpc' = [cpc EXCEPT ![s] = "count"]
    /\ UNCHANGED <<store, now, mainVars, ccount, cstart, ctoday>>

\* df_check = pd.read_sql_query("SELECT count(*) as count FROM rates", conn)
CSeedCount(s) ==
    /\ cpc[s] = "count"
    /\ ccount' = [ccount EXCEPT ![s] = Len(store)]
    /\ cpc' = [cpc EXCEPT ![s] = "insert"]
    /\ UNCHANGED <<tableExists, store, now, mainVars, cstart, ctoday>>

\* if df_check['count'][0] == 0: start_date from datetime.now(), executemany
CSeedInsert(s) ==
    /\ cpc[s] = "insert"
    /\ \E noise \in NoiseDraws : store' = SeedStore(store, ccount[s], now, noise)
    /\ cstart' = [cstart EXCEPT ![s] = IF ccount[s] = 0 THEN now ELSE 0]
    /\ cpc' = [cpc EXCEPT ![s] = "sidebar"]
    /\ UNCHANGED <<tableExists, now, mainVars, ccount, ctoday>>

CIngestLatest(s) ==
    /\ cpc[s] = "sidebar"
    /\ store' = ExecuteMany(store, fetch_latest_lending_rates(now))
    /\ ctoday' = [ctoday EXCEPT ![s] = now]
    /\ cpc' = [cpc EXCEPT ![s] = "done"]
    /\ UNCHANGED <<tableExists, now, mainVars, ccount, cstart>>

CSidebarNoClick(s) ==
    /\ cpc[s] = "sidebar"
    /\ cpc' = [cpc EXCEPT ![s] = "done"]
    /\ UNCHANGED <<tableExists, store, now, mainVars, ccount, cstart, ctoday>>

NextConc ==
    \/ CTick
    \/ \E s \in Sessions : CInitDb(s)
    \/ \E s \in Sessions : CSeedCount(s)
    \/ \E s \in Sessions : CSeedInsert(s)
    \/ \E s \in Sessions : CIngestLatest(s)
    \/ \E s \in Sessions : CSidebarNoClick(s)

SpecConc == InitConc /\ [][NextConc]_vars

StoreDates == {store[i].date : i \in 1..Len(store)}

\* the dates of the seed window that ends on day n
SeedWindow(n) == {Strftime(n - i) : i \in 0..(SeedDays - 1)}

\* C8: when both sessions have finished, the table holds one row per key and
\* the keys one session alone would have written: the dates of one seed
\* window and the dates of the ingestions
C8_ConcurrentIdempotent ==
    (\A s \in Sessions : cpc[s] = "done") =>
        /\ \A i, j \in 1..Len(store) : SameKey(store[i], store[j]) => i = j
        /\ \E s \in Sessions :
             /\ cstart[s] # 0
             /\ StoreDates = SeedWindow(cstart[s])
                               \cup {Strftime(ctoday[t]) : t \in {u \in Sessions : ctoday[u] # 0}}

---------------------------------------------------------------------------
(* The resampling path on its own: the table holds rows inserted on some of *)
(* the dates below, four banks a date, and one rerun loads, resamples and   *)
(* renders it in the unit the radio gives.                                  *)

\* Mon 2024-01-01, Wed 2024-01-03, Mon 2024-01-08, Mon 2024-01-22, Mon 2024-03-04
InputDates == << <<2024, 1, 1>>, <<2024, 1, 3>>, <<2024, 1, 8>>, <<2024, 1, 22>>, <<2024, 3, 4>> >>

\* rates of a date, in thousandths; 0 marks a date without rows
InputRates == {0, 1000, 1200}

RECURSIVE InputTable(_, _)
InputTable(mask, k) ==
    IF k > Len(InputDates) THEN <<>>
    ELSE (IF mask[k] = 0 THEN <<>>
          ELSE [b \in 1..Len(BankList) |-> Row(InputDates[k], BankList[b], mask[k])])
         \o InputTable(mask, k + 1)

InitResample ==
    /\ tableExists = TRUE
    /\ \E mask \in [1..Len(InputDates) -> InputRates] :
         /\ \E k \in 1..Len(InputDates) : mask[k] # 0
         /\ store = InputTable(mask, 1)
    /\ now = ToDatetime(InputDates[Len(InputDates)])
    /\ pc = "load"
    /\ time_unit = "unset"
    /\ df = <<>>
    /\ view = "none"
    /\ metrics = <<>>
    /\ runs = 1
    /\ ingest_log = <<>>
    /\ ConcIdle

NextResample == View

SpecResample == InitResample /\ [][NextResample]_vars

AtMostOnePerWeek(d) ==
    \A i, j \in 1..Len(d) :
        (d[i].bank_name = d[j].bank_name
           /\ BinLabel("week", d[i].date) = BinLabel("week", d[j].date)) => i = j

Rows(d) == {d[k] : k \in 1..Len(d)}

\* C7: resampling by week a table with at most one observation per bank and
\* calendar week returns it unchanged: as many rows, each with the date and
\* the rate of the observation
C7_WeekIdentity ==
    (view = "chart" /\ time_unit = "week" /\ AtMostOnePerWeek(LoadTable(store))) =>
        /\ Len(df) = Len(LoadTable(store))
        /\ Rows(df) = Rows(LoadTable(store))

===========================================================================
